---- MODULE Spec2Model ----
(***************************************************************************)
(* A model of heft's SubprocessRunnerBase                                  *)
(* (apps/heft/src/utilities/subprocess/SubprocessRunnerBase.ts): the       *)
(* argument codec, the message router over the registered communication    *)
(* managers, the parent-side exit protocol of invokeAsSubprocessAsync, the *)
(* worker bootstrap [SUBPROCESS_RUNNER_INNER_INVOKE], the inspector port   *)
(* handling of _processNodeArgsForSubprocess and the wiring of the         *)
(* managers by the constructor and by initializeSubprocess.                *)
(*                                                                         *)
(* Several specifications share the variables below; each one drives a     *)
(* part of the class and leaves the other variables at their initial       *)
(* value:                                                                  *)
(*   SpecParent  the message and close handlers of invokeAsSubprocessAsync *)
(*               under arbitrary inbound message sequences;                *)
(*   SpecSystem  the worker bootstrap, one FIFO channel per direction and  *)
(*               the parent handlers, composed;                            *)
(*   SpecRouter  _receiveMessageFromParentProcess and                      *)
(*               _receiveMessageFromSubprocess on one runner;              *)
(*   SpecLaunch  successive launches: port allocation and the rewriting of *)
(*               the runtime arguments;                                    *)
(*   SpecCodec   serializeArg and deserializeArg on values and Arguments   *)
(*               of every shape;                                           *)
(*   SpecWiring  the construction of a runner by the constructor and by    *)
(*               initializeSubprocess, and the managers' sends.            *)
(***************************************************************************)
EXTENDS Integers, Sequences, FiniteSets, TLC

VARIABLES
  \* --- the closure of invokeAsSubprocessAsync (parent side) ---
  hasExited,        \* let hasExited (line 177)
  exitError,        \* let exitError (line 178): a JavaScript value
  launchState,      \* the promise returned by invokeAsSubprocessAsync
  launchError,      \* its rejection reason (Undefined while not rejected)
  closed,           \* the subprocess 'close' event has fired
  received,         \* history: the messages the 'message' handler was given
  thrown,           \* what the last run of the 'message' handler threw (<<>>: nothing)
  \* --- the communication managers and the router ---
  fromParentTypes,      \* manager -> the types its canHandleMessageFromParentProcess accepts
  fromSubprocessTypes,  \* manager -> the types its canHandleMessageFromSubprocess accepts
  delivered,            \* parent-side runner: the handler invocations, in order
  dispatched,           \* history: the messages given to the router of that runner
  routerThrown,         \* what the last router call threw (<<>>: nothing)
  \* --- the worker process ---
  wpc,              \* position of [SUBPROCESS_RUNNER_INNER_INVOKE]
  invokeEnd,        \* how invokeAsync ended: "none", "return", "syncThrow", "asyncReject"
  invokeThrown,     \* the value invokeAsync threw (Undefined when it did not throw)
  caught,           \* let error (line 235)
  listening,        \* the process 'message' listener is installed
  toParent,         \* FIFO channel worker -> parent
  toWorker,         \* FIFO channel parent -> worker
  workerSent,       \* history: every message the worker process sent
  workerDelivered,  \* worker-side runner: the handler invocations, in order
  workerInbox,      \* history: the parent messages that reached the worker process
  workerThrown,     \* history: what the worker's steps threw
  \* --- launching ---
  subprocessInspectorPort,  \* static _subprocessInspectorPort (line 49)
  execArgv,                 \* process.execArgv of the parent
  launches,                 \* history: one record per fork
  terminalLog,              \* lines written to the parent's global terminal
  \* --- the argument codec, called on its own ---
  codecArg,         \* the value given to serializeArg
  codecRaw,         \* an Argument given to deserializeArg as it stands
  serialized,       \* <<the outcome of serializeArg(codecArg)>>, <<>> before the call
  deserialized,     \* <<the outcome of deserializeArg on that Argument>>, <<>> before the call
  rawDeserialized,  \* <<the outcome of deserializeArg(codecRaw)>>, <<>> before the call
  \* --- the construction of one runner ---
  runnerSide,           \* "parent": new thisType(provider, ...); "worker": initializeSubprocess
  setupPc,              \* index of the next construction step
  options,              \* <<communicationManagerBaseOptions>>, <<>> before it is built
  wired,                \* manager -> <<the options it was constructed with>>, <<>> before
  registry,             \* _subprocessCommunicationManagers
  globalTerminal,       \* _globalTerminal has been created
  runningAsSubprocess,  \* _runningAsSubprocess
  initializeCalls,      \* history: one record per call of initialize()
  invokeStarted,        \* invokeAsync has been started on the runner
  sendLog,              \* history: one record per send of a manager
  processSent           \* history: the messages given to process.send

parentVars == <<hasExited, exitError, launchState, launchError, closed, received, thrown>>
routerVars == <<fromParentTypes, fromSubprocessTypes, delivered, dispatched, routerThrown>>
workerVars == <<wpc, invokeEnd, invokeThrown, caught, listening, toParent, toWorker,
                workerSent, workerDelivered, workerInbox, workerThrown>>
launchVars == <<subprocessInspectorPort, execArgv, launches, terminalLog>>
codecVars == <<codecArg, codecRaw, serialized, deserialized, rawDeserialized>>
setupVars == <<runnerSide, setupPc, options, wired, registry, globalTerminal,
               runningAsSubprocess, initializeCalls, invokeStarted, sendLog, processSent>>
auxVars == <<codecVars, setupVars>>
vars == <<parentVars, routerVars, workerVars, launchVars, auxVars>>

----------------------------------------------------------------------------
(* JavaScript values.  A string-or-undefined is a sequence of at most one  *)
(* string: <<>> is undefined.                                              *)

Undefined == [kind |-> "undefined"]
Null == [kind |-> "null"]
Bool(b) == [kind |-> "boolean", b |-> b]
Num(n) == [kind |-> "number", n |-> n]
Str(s) == [kind |-> "string", s |-> s]
ErrorObj(m, st) == [kind |-> "error", message |-> m, stack |-> st]
\* typeof 'object' and not instanceof Error: a plain object or an array
PlainObject == [kind |-> "object"]
FunctionValue == [kind |-> "function"]
SymbolValue == [kind |-> "symbol"]
\* the empty array []
ArrayValue == [kind |-> "array"]

\* 9229 is the default port (line 49)
DefaultInspectorPort == 9229

\* The stack of an Error constructed in the process at hand.
LocalStack == <<"Error\n    at <anonymous>">>

\* JavaScript's ToBoolean, as applied by `if (exitError)`.
Truthy(v) ==
  CASE v.kind = "undefined" -> FALSE
    [] v.kind = "null" -> FALSE
    [] v.kind = "boolean" -> v.b
    [] v.kind = "number" -> v.n # 0
    [] v.kind = "string" -> v.s # ""
    [] OTHER -> TRUE

\* String(v) as a template literal computes it (no symbol reaches it here).
TemplateString(v) ==
  CASE v.kind = "object" -> "[object Object]"
    [] v.kind = "array" -> ""
    [] v.kind = "function" -> "function () { }"
    [] OTHER -> "?"

\* The outcome of a call: a returned value, or a thrown one.
Return(v) == [ok |-> TRUE, value |-> v]
Throw(e) == [ok |-> FALSE, error |-> e]

----------------------------------------------------------------------------
(* The argument codec                                                      *)

UnsupportedArgumentType(arg) ==
  IF arg.kind = "symbol"
    THEN ErrorObj("Cannot convert a Symbol value to a string", LocalStack)
    ELSE ErrorObj("Argument (" \o TemplateString(arg)
                    \o ") is not supported in subprocess communication.", LocalStack)

SerializeArg(arg) ==
  IF arg = Undefined THEN Return([type |-> "Undefined"])
  ELSE IF arg = Null THEN Return([type |-> "Null"])
  ELSE IF arg.kind = "error"
    THEN Return([type |-> "Error",
                 value |-> [errorMessage |-> arg.message, errorStack |-> arg.stack]])
  ELSE IF arg.kind \in {"string", "number", "boolean"}
    THEN Return([type |-> "Primitive", value |-> arg])
  ELSE Throw(UnsupportedArgumentType(arg))

\* The tags deserializeArg has a case for.
KnownTags == {"Undefined", "Null", "Primitive", "Error"}

UnknownArgumentTag(arg) ==
  ErrorObj("Unexpected arg type \"" \o arg.type \o "\".", LocalStack)

\* (an Error case that leaves the new Error its own stack)
DeserializeArgKeepingOwnStack(arg) ==
  CASE arg.type = "Undefined" -> Return(Undefined)
    [] arg.type = "Null" -> Return(Null)
    [] arg.type = "Error" -> Return(ErrorObj(arg.value.errorMessage, LocalStack))
    [] arg.type = "Primitive" -> Return(arg.value)
    [] OTHER -> Throw(UnknownArgumentTag(arg))
\* (a switch whose default returns undefined)
DeserializeArgDefaultUndefined(arg) ==
  CASE arg.type = "Null" -> Return(Null)
    [] arg.type = "Error" ->
         Return([ErrorObj(arg.value.errorMessage, LocalStack)
                   EXCEPT !.stack = arg.value.errorStack])
    [] arg.type = "Primitive" -> Return(arg.value)
    [] OTHER -> Return(Undefined)
\* The Error case: new Error(errorMessage), then result.stack = errorStack.
DeserializeArg(arg) ==
  CASE arg.type = "Undefined" -> Return(Undefined)
    [] arg.type = "Null" -> Return(Null)
    [] arg.type = "Error" ->
         Return([ErrorObj(arg.value.errorMessage, LocalStack)
                   EXCEPT !.stack = arg.value.errorStack])
    [] arg.type = "Primitive" -> Return(arg.value)
    [] OTHER -> Throw(UnknownArgumentTag(arg))

----------------------------------------------------------------------------
(* Messages                                                                *)

ExitMessage(arg) == [type |-> "exit", error |-> arg]
Message(t) == [type |-> t]

\* The message types of the communication managers' traffic.  "typeC" is a
\* type no manager owns.
ManagerTypes == {"typeA", "typeB"}
MessageTypes == ManagerTypes \cup {"typeC"}

----------------------------------------------------------------------------
(* The registry and the router                                             *)

\* _subprocessCommunicationManagers after the push of line 111 (155-158 in
\* the worker): registration order.
SubprocessCommunicationManagers == <<"terminalProviderManager", "scopedLoggerManager">>
ManagerNames == {"terminalProviderManager", "scopedLoggerManager"}

CanHandleMessageFromParentProcess(manager, message) ==
  message.type \in fromParentTypes[manager]
CanHandleMessageFromSubprocess(manager, message) ==
  message.type \in fromSubprocessTypes[manager]

Delivery(manager, from, message) == [manager |-> manager, from |-> from, message |-> message]
Routed(from, message) == [from |-> from, message |-> message]

UnroutableMessage(message, from) ==
  ErrorObj("Subprocess communication manager. No communication manager can handle "
             \o "message type \"" \o message.type \o "\" from " \o from \o ".", LocalStack)

\* The index of the manager the for-loop stops at, 0 when it runs to its end.
FirstManagerFromParent(message) ==
  LET hits == {i \in 1..Len(SubprocessCommunicationManagers) :
                 CanHandleMessageFromParentProcess(SubprocessCommunicationManagers[i], message)}
  IN IF hits = {} THEN 0 ELSE CHOOSE i \in hits : \A j \in hits : i <= j
\* (a loop that keeps the last accepting manager)
FirstManagerFromSubprocessLastWins(message) ==
  LET hits == {i \in 1..Len(SubprocessCommunicationManagers) :
                 CanHandleMessageFromSubprocess(SubprocessCommunicationManagers[i], message)}
  IN IF hits = {} THEN 0 ELSE CHOOSE i \in hits : \A j \in hits : i >= j
FirstManagerFromSubprocess(message) ==
  LET hits == {i \in 1..Len(SubprocessCommunicationManagers) :
                 CanHandleMessageFromSubprocess(SubprocessCommunicationManagers[i], message)}
  IN IF hits = {} THEN 0 ELSE CHOOSE i \in hits : \A j \in hits : i <= j

\* The router calls: the handler invocations they make and what they throw.
\* (a router that drops what nobody accepts)
ReceiveMessageFromParentProcessDropping(message) ==
  LET i == FirstManagerFromParent(message)
  IN IF i # 0
       THEN [calls |-> <<Delivery(SubprocessCommunicationManagers[i], "parent", message)>>,
             thrown |-> <<>>]
       ELSE [calls |-> <<>>, thrown |-> <<>>]
ReceiveMessageFromParentProcess(message) ==
  LET i == FirstManagerFromParent(message)
  IN IF i # 0
       THEN [calls |-> <<Delivery(SubprocessCommunicationManagers[i], "parent", message)>>,
             thrown |-> <<>>]
       ELSE [calls |-> <<>>, thrown |-> <<UnroutableMessage(message, "parent process")>>]

ReceiveMessageFromSubprocess(message) ==
  LET i == FirstManagerFromSubprocess(message)
  IN IF i # 0
       THEN [calls |-> <<Delivery(SubprocessCommunicationManagers[i], "subprocess", message)>>,
             thrown |-> <<>>]
       ELSE [calls |-> <<>>, thrown |-> <<UnroutableMessage(message, "subprocess")>>]

\* The standard wiring: each manager owns its own type, in both directions.
StandardTypes == [m \in ManagerNames |->
                    IF m = "terminalProviderManager" THEN {"typeA"} ELSE {"typeB"}]

----------------------------------------------------------------------------
(* invokeAsSubprocessAsync: the 'message' and 'close' handlers             *)

DuplicateExitMessage ==
  ErrorObj("Subprocess communication error. Received a duplicate \"exit\" message.",
           LocalStack)
MessageAfterExit ==
  ErrorObj("Subprocess communication error. Received a message after the subprocess "
             \o "has indicated that it has exited", LocalStack)
WorkerExitedWithoutSignal ==
  ErrorObj("Subprocess exited before sending \"exit\" message.", LocalStack)

\* case 'exit' (lines 182-194): the new hasExited and exitError, and the throw.
\* (hasExited assigned after deserializeArg)
ExitCaseFlagAfterDeserialize(exited, err, message) ==
  IF exited
    THEN [hasExited |-> exited, exitError |-> err, thrown |-> <<DuplicateExitMessage>>]
    ELSE LET d == DeserializeArg(message.error)
         IN IF d.ok
              THEN [hasExited |-> TRUE, exitError |-> d.value, thrown |-> <<>>]
              ELSE [hasExited |-> exited, exitError |-> err, thrown |-> <<d.error>>]
\* (a duplicate exit message that is recorded before the throw)
ExitCaseOverwriting(exited, err, message) ==
  LET d == DeserializeArg(message.error)
  IN IF exited
       THEN [hasExited |-> exited, exitError |-> IF d.ok THEN d.value ELSE err,
             thrown |-> <<DuplicateExitMessage>>]
       ELSE IF d.ok
              THEN [hasExited |-> TRUE, exitError |-> d.value, thrown |-> <<>>]
              ELSE [hasExited |-> TRUE, exitError |-> err, thrown |-> <<d.error>>]
ExitCase(exited, err, message) ==
  IF exited
    THEN [hasExited |-> exited, exitError |-> err, thrown |-> <<DuplicateExitMessage>>]
    ELSE LET d == DeserializeArg(message.error)
         IN IF d.ok
              THEN [hasExited |-> TRUE, exitError |-> d.value, thrown |-> <<>>]
              ELSE [hasExited |-> TRUE, exitError |-> err, thrown |-> <<d.error>>]

\* default (lines 196-205): the messages handed to the router, the handler
\* invocations the router makes, and the throw.
\* (the default case without its hasExited test)
DefaultCaseNoExitCheck(exited, message) ==
  LET r == ReceiveMessageFromSubprocess(message)
  IN [routed |-> <<Routed("subprocess", message)>>, calls |-> r.calls, thrown |-> r.thrown]
DefaultCase(exited, message) ==
  IF exited
    THEN [routed |-> <<>>, calls |-> <<>>, thrown |-> <<MessageAfterExit>>]
    ELSE LET r == ReceiveMessageFromSubprocess(message)
         IN [routed |-> <<Routed("subprocess", message)>>, calls |-> r.calls,
             thrown |-> r.thrown]

\* The 'close' handler (lines 209-217): how the promise is settled.
\* (the close handler without its hasExited test)
CloseOutcomeWithoutExitCheck(err, exited) ==
  IF Truthy(err) THEN [state |-> "rejected", error |-> err]
  ELSE [state |-> "fulfilled", error |-> Undefined]
CloseOutcome(err, exited) ==
  IF Truthy(err) THEN [state |-> "rejected", error |-> err]
  ELSE IF ~exited THEN [state |-> "rejected", error |-> WorkerExitedWithoutSignal]
  ELSE [state |-> "fulfilled", error |-> Undefined]

\* The handler, were it to settle the promise as soon as the exit message is read.
OnMessageSettlingAtExit(message) ==
  /\ received' = Append(received, message)
  /\ closed' = closed
  /\ IF message.type = "exit"
       THEN LET r == ExitCase(hasExited, exitError, message)
                o == CloseOutcome(r.exitError, r.hasExited)
            IN /\ hasExited' = r.hasExited
               /\ exitError' = r.exitError
               /\ thrown' = r.thrown
               /\ launchState' = IF launchState = "pending" THEN o.state ELSE launchState
               /\ launchError' = IF launchState = "pending" THEN o.error ELSE launchError
               /\ UNCHANGED <<delivered, dispatched, routerThrown>>
       ELSE LET r == DefaultCase(hasExited, message)
            IN /\ thrown' = r.thrown
               /\ delivered' = delivered \o r.calls
               /\ dispatched' = dispatched \o r.routed
               /\ routerThrown' = IF r.routed = <<>> THEN routerThrown ELSE r.thrown
               /\ UNCHANGED <<hasExited, exitError, launchState, launchError>>

\* subprocess.on('message', ...) (lines 180-207), run on one message.  A throw
\* leaves the handler with what was assigned before it; the listener stays
\* installed and the next message runs it again.
OnMessage(message) ==
  /\ received' = Append(received, message)
  /\ UNCHANGED <<launchState, launchError, closed>>
  /\ IF message.type = "exit"
       THEN LET r == ExitCase(hasExited, exitError, message)
            IN /\ hasExited' = r.hasExited
               /\ exitError' = r.exitError
               /\ thrown' = r.thrown
               /\ UNCHANGED <<delivered, dispatched, routerThrown>>
       ELSE LET r == DefaultCase(hasExited, message)
            IN /\ thrown' = r.thrown
               /\ delivered' = delivered \o r.calls
               /\ dispatched' = dispatched \o r.routed
               /\ routerThrown' = IF r.routed = <<>> THEN routerThrown ELSE r.thrown
               /\ UNCHANGED <<hasExited, exitError>>

\* subprocess.on('close', ...) (lines 209-217).  resolve and reject settle a
\* pending promise and do nothing to a settled one.
OnClose ==
  LET o == CloseOutcome(exitError, hasExited)
  IN /\ closed' = TRUE
     /\ launchState' = IF launchState = "pending" THEN o.state ELSE launchState
     /\ launchError' = IF launchState = "pending" THEN o.error ELSE launchError
     /\ UNCHANGED <<hasExited, exitError, received, thrown>>

----------------------------------------------------------------------------
(* Initial values                                                          *)

InitParentVars ==
  /\ hasExited = FALSE
  /\ exitError = Undefined
  /\ launchState = "pending"
  /\ launchError = Undefined
  /\ closed = FALSE
  /\ received = <<>>
  /\ thrown = <<>>

InitRouterVars ==
  /\ delivered = <<>>
  /\ dispatched = <<>>
  /\ routerThrown = <<>>

InitStandardWiring ==
  /\ fromParentTypes = StandardTypes
  /\ fromSubprocessTypes = StandardTypes

InitWorkerVars ==
  /\ wpc = "start"
  /\ invokeEnd = "none"
  /\ invokeThrown = Undefined
  /\ caught = Undefined
  /\ listening = FALSE
  /\ toParent = <<>>
  /\ toWorker = <<>>
  /\ workerSent = <<>>
  /\ workerDelivered = <<>>
  /\ workerInbox = <<>>
  /\ workerThrown = <<>>

InitLaunchVars ==
  /\ subprocessInspectorPort = DefaultInspectorPort + 1
  /\ execArgv = <<>>
  /\ launches = <<>>
  /\ terminalLog = <<>>

InitCodecVars ==
  /\ codecArg = Undefined
  /\ codecRaw = [type |-> "Undefined"]
  /\ serialized = <<>>
  /\ deserialized = <<>>
  /\ rawDeserialized = <<>>

InitSetupVars ==
  /\ runnerSide = "parent"
  /\ setupPc = 1
  /\ options = <<>>
  /\ wired = [m \in ManagerNames |-> <<>>]
  /\ registry = <<>>
  /\ globalTerminal = FALSE
  /\ runningAsSubprocess = FALSE
  /\ initializeCalls = <<>>
  /\ invokeStarted = FALSE
  /\ sendLog = <<>>
  /\ processSent = <<>>

InitAuxVars == InitCodecVars /\ InitSetupVars

----------------------------------------------------------------------------
(* SpecParent: the handlers of invokeAsSubprocessAsync under every inbound *)
(* message sequence of at most MaxInbound messages, closed at any point.   *)

MaxInbound == 3

\* The arguments an exit message may carry: every shape serializeArg
\* produces, and one with a tag deserializeArg does not know.
InboundArguments ==
  { [type |-> "Undefined"],
    [type |-> "Null"],
    [type |-> "Primitive", value |-> Bool(FALSE)],
    [type |-> "Primitive", value |-> Num(0)],
    [type |-> "Primitive", value |-> Str("")],
    [type |-> "Primitive", value |-> Str("boom")],
    [type |-> "Error", value |-> [errorMessage |-> "boom", errorStack |-> <<>>]],
    [type |-> "Error", value |-> [errorMessage |-> "boom", errorStack |-> <<"at worker">>]],
    [type |-> "Bogus"] }

InboundMessages ==
  {ExitMessage(a) : a \in InboundArguments} \cup {Message(t) : t \in MessageTypes}

InitParent ==
  /\ InitParentVars /\ InitRouterVars /\ InitStandardWiring
  /\ InitWorkerVars /\ InitLaunchVars /\ InitAuxVars

ParentReceive ==
  \E message \in InboundMessages :
    /\ ~closed
    /\ Len(received) < MaxInbound
    /\ OnMessage(message)
    /\ UNCHANGED <<fromParentTypes, fromSubprocessTypes, workerVars, launchVars, auxVars>>

ParentClose ==
  /\ ~closed
  /\ OnClose
  /\ UNCHANGED <<routerVars, workerVars, launchVars, auxVars>>

NextParent == ParentReceive \/ ParentClose

SpecParent == InitParent /\ [][NextParent]_vars

----------------------------------------------------------------------------
(* What the history says                                                   *)

Last(s) == s[Len(s)]
ExitIndices == {i \in 1..Len(received) : received[i].type = "exit"}
FirstExitIndex == CHOOSE i \in ExitIndices : \A j \in ExitIndices : i <= j
\* The value the first exit message carries (Undefined when its tag is unknown).
FirstExitValue ==
  LET d == DeserializeArg(received[FirstExitIndex].error)
  IN IF d.ok THEN d.value ELSE Undefined
\* The non-exit messages received before the first exit message.
RoutedPrefix ==
  LET n == IF ExitIndices = {} THEN Len(received) ELSE FirstExitIndex - 1
  IN SubSeq(received, 1, n)

\* C1: at the close event the promise is settled by the three-way rule: an
\* exit message that left a (truthy) completion error rejects with that
\* error; otherwise no exit message at all rejects with "exited before
\* sending exit message", whether or not other messages came; otherwise it
\* resolves.  The "exited before" error never follows a recorded exit message.
C1_CloseRule ==
  /\ hasExited = (ExitIndices # {})
  /\ closed =>
       /\ IF ExitIndices # {} /\ Truthy(FirstExitValue)
            THEN launchState = "rejected" /\ launchError = FirstExitValue
          ELSE IF ExitIndices = {}
            THEN launchState = "rejected" /\ launchError = WorkerExitedWithoutSignal
          ELSE launchState = "fulfilled"
       /\ (ExitIndices # {} => launchError # WorkerExitedWithoutSignal)

C1_Witness ==
  /\ closed
  /\ Len(received) = 3
  /\ received[1].type # "exit"
  /\ received[2].type = "exit"
  /\ launchState = "rejected"
  /\ launchError = ErrorObj("boom", <<"at worker">>)

\* C2: the promise is pending in every state before the close event, also
\* after the exit message has been recorded, and once settled it never
\* changes.
C2_SettledOnlyAtClose ==
  /\ [](closed \/ launchState = "pending")
  /\ [][/\ (launchState # launchState' => launchState = "pending" /\ ~closed /\ closed')
        /\ (launchState # "pending" => launchError' = launchError)]_vars

C2_Witness == hasExited /\ exitError # Undefined /\ ~closed /\ launchState = "pending"

\* C4: an exit message raises the duplicate-exit error exactly when an exit
\* message was received before it on the same channel.
C4_DuplicateExit ==
  (received # <<>> /\ Last(received).type = "exit") =>
    ((thrown = <<DuplicateExitMessage>>) <=> (Cardinality(ExitIndices) >= 2))

C4_Witness ==
  /\ Cardinality(ExitIndices) = 3
  /\ thrown = <<DuplicateExitMessage>>

\* C5: a non-exit message after the recorded exit raises the
\* message-after-exit error and reaches neither the router nor a manager; a
\* non-exit message before it is handed to the router and does not raise
\* that error.
C5_MessageAfterExit ==
  /\ dispatched = [i \in 1..Len(RoutedPrefix) |-> Routed("subprocess", RoutedPrefix[i])]
  /\ \A i \in 1..Len(delivered) :
       \E j \in 1..Len(dispatched) : delivered[i].message = dispatched[j].message
  /\ Len(delivered) <= Len(dispatched)
  /\ (received # <<>> /\ Last(received).type # "exit") =>
       IF ExitIndices # {}
         THEN thrown = <<MessageAfterExit>>
         ELSE thrown # <<MessageAfterExit>> /\ Last(dispatched).message = Last(received)

C5_Witness ==
  /\ Len(received) = 3
  /\ received[1].type = "typeA"
  /\ received[2].type = "exit"
  /\ received[3].type = "typeA"
  /\ thrown = <<MessageAfterExit>>
  /\ Len(delivered) = 1

\* C17: the value deserialized from the exit message is recorded as the
\* completion error, and at the close event the promise is fulfilled exactly
\* when that exit message carried the Undefined argument; for a Null, a
\* Primitive (false, 0 and "" included) or an Error argument it is rejected
\* with the deserialized value.
C17_SuccessOnlyForUndefined ==
  (ExitIndices # {} /\ received[FirstExitIndex].error.type \in KnownTags) =>
    /\ exitError = DeserializeArg(received[FirstExitIndex].error).value
    /\ closed =>
         IF received[FirstExitIndex].error.type = "Undefined"
           THEN launchState = "fulfilled"
           ELSE /\ launchState = "rejected"
                /\ launchError = DeserializeArg(received[FirstExitIndex].error).value

\* C20: once an exit message has been recorded, hasExited stays true and
\* the recorded completion error stays what the first exit message left,
\* through duplicate exit messages and messages after the exit, and the close
\* event settles the promise by it; while no exit message has come, routable
\* or unroutable messages leave hasExited false, and the first exit message
\* is then recorded without the duplicate-exit error.
C20_FirstExitWins ==
  /\ [][hasExited => (hasExited' /\ exitError' = exitError)]_vars
  /\ [][(~hasExited /\ Len(received') > Len(received) /\ Last(received').type = "exit")
         => (hasExited' /\ exitError' = FirstExitValue'
               /\ thrown' # <<DuplicateExitMessage>>)]_vars
  /\ [](ExitIndices = {} => (~hasExited /\ exitError = Undefined))
  /\ [](ExitIndices # {} => (hasExited /\ exitError = FirstExitValue))
  /\ []((closed /\ ExitIndices # {}) =>
          IF Truthy(FirstExitValue)
            THEN launchState = "rejected" /\ launchError = FirstExitValue
            ELSE launchState = "fulfilled")

C20_Witness ==
  /\ closed
  /\ received = <<Message("typeC"),
                  ExitMessage([type |-> "Error",
                               value |-> [errorMessage |-> "boom", errorStack |-> <<>>]]),
                  ExitMessage([type |-> "Undefined"])>>
  /\ thrown = <<DuplicateExitMessage>>
  /\ launchState = "rejected"
  /\ launchError = ErrorObj("boom", <<>>)

----------------------------------------------------------------------------
(* SpecSystem: the worker bootstrap [SUBPROCESS_RUNNER_INNER_INVOKE], one  *)
(* FIFO channel per direction, and the parent's handlers.  The close event *)
(* follows the worker's end and the delivery of what it sent.  The         *)
(* managers on either side send messages of the types they own.            *)

MaxWorkerMessages == 2
MaxParentMessages == 2

\* What invokeAsync may throw, or reject with: any JavaScript value.
ThrownValues ==
  { Undefined, Null, Bool(FALSE), Num(0), Str(""), Str("boom"),
    ErrorObj("boom", <<>>), ErrorObj("boom", <<"at worker">>),
    PlainObject, FunctionValue, SymbolValue }

InitSystem ==
  /\ InitParentVars /\ InitRouterVars /\ InitStandardWiring
  /\ InitWorkerVars /\ InitLaunchVars /\ InitAuxVars

\* process.on('message', ...) (lines 231-233), then invokeAsync is called.
InstallListener ==
  /\ wpc = "start"
  /\ listening' = TRUE
  /\ wpc' = "running"
  /\ UNCHANGED <<invokeEnd, invokeThrown, caught, toParent, toWorker, workerSent,
                 workerDelivered, workerInbox, workerThrown>>
  /\ UNCHANGED <<parentVars, routerVars, launchVars, auxVars>>

\* While invokeAsync runs, a manager sends to the parent: process.send (line 135).
WorkerSend ==
  \E t \in ManagerTypes :
    /\ wpc = "running"
    /\ Len(workerSent) < MaxWorkerMessages
    /\ toParent' = Append(toParent, Message(t))
    /\ workerSent' = Append(workerSent, Message(t))
    /\ UNCHANGED <<wpc, invokeEnd, invokeThrown, caught, listening, toWorker,
                   workerDelivered, workerInbox, workerThrown>>
    /\ UNCHANGED <<parentVars, routerVars, launchVars, auxVars>>

\* await this.invokeAsync() completes (line 237).
InvokeReturn ==
  /\ wpc = "running"
  /\ invokeEnd' = "return"
  /\ wpc' = "finally"
  /\ UNCHANGED <<invokeThrown, caught, listening, toParent, toWorker, workerSent,
                 workerDelivered, workerInbox, workerThrown>>
  /\ UNCHANGED <<parentVars, routerVars, launchVars, auxVars>>

\* invokeAsync throws before returning its promise, or the promise rejects;
\* catch (e) { error = e } (lines 238-239).  A synchronous throw comes before
\* any event, so before any parent message is handled.
InvokeThrow ==
  \E e \in ThrownValues, how \in {"syncThrow", "asyncReject"} :
    /\ wpc = "running"
    /\ how = "syncThrow" => workerInbox = <<>>
    /\ invokeEnd' = how
    /\ invokeThrown' = e
    /\ caught' = e
    /\ wpc' = "finally"
    /\ UNCHANGED <<listening, toParent, toWorker, workerSent,
                   workerDelivered, workerInbox, workerThrown>>
    /\ UNCHANGED <<parentVars, routerVars, launchVars, auxVars>>

\* process.removeAllListeners() (line 241).
\* (a finally block that leaves the listener installed)
RemoveAllListenersKeepingListener ==
  /\ wpc = "finally"
  /\ wpc' = "teardown"
  /\ UNCHANGED <<invokeEnd, invokeThrown, caught, listening, toParent, toWorker,
                 workerSent, workerDelivered, workerInbox, workerThrown>>
  /\ UNCHANGED <<parentVars, routerVars, launchVars, auxVars>>
RemoveAllListeners ==
  /\ wpc = "finally"
  /\ listening' = FALSE
  /\ wpc' = "teardown"
  /\ UNCHANGED <<invokeEnd, invokeThrown, caught, toParent, toWorker, workerSent,
                 workerDelivered, workerInbox, workerThrown>>
  /\ UNCHANGED <<parentVars, routerVars, launchVars, auxVars>>

\* The exit message is built and sent (lines 243-247); when serializeArg
\* throws, nothing is sent and the error leaves the function.
SendExit ==
  /\ wpc = "teardown"
  /\ LET a == SerializeArg(caught)
     IN IF a.ok
          THEN /\ toParent' = Append(toParent, ExitMessage(a.value))
               /\ workerSent' = Append(workerSent, ExitMessage(a.value))
               /\ workerThrown' = workerThrown
               /\ wpc' = "sent"
          ELSE /\ workerThrown' = Append(workerThrown, a.error)
               /\ wpc' = "failed"
               /\ UNCHANGED <<toParent, workerSent>>
  /\ UNCHANGED <<invokeEnd, invokeThrown, caught, listening, toWorker,
                 workerDelivered, workerInbox>>
  /\ UNCHANGED <<parentVars, routerVars, launchVars, auxVars>>

\* A parent message reaches the worker process: the listener, when one is
\* installed, gives it to _receiveMessageFromParentProcess (line 232).  The
\* catch and finally blocks run without yielding to the event loop.
WorkerDeliver ==
  /\ wpc \in {"running", "sent", "failed"}
  /\ toWorker # <<>>
  /\ LET message == Head(toWorker)
         r == ReceiveMessageFromParentProcess(message)
     IN /\ toWorker' = Tail(toWorker)
        /\ workerInbox' = Append(workerInbox, [message |-> message, at |-> wpc,
                                                listened |-> listening])
        /\ workerDelivered' = IF listening THEN workerDelivered \o r.calls ELSE workerDelivered
        /\ workerThrown' = IF listening THEN workerThrown \o r.thrown ELSE workerThrown
  /\ UNCHANGED <<wpc, invokeEnd, invokeThrown, caught, listening, toParent, workerSent>>
  /\ UNCHANGED <<parentVars, routerVars, launchVars, auxVars>>

\* The worker process ends.
WorkerExit ==
  /\ wpc \in {"sent", "failed"}
  /\ wpc' = "exited"
  /\ UNCHANGED <<invokeEnd, invokeThrown, caught, listening, toParent, toWorker,
                 workerSent, workerDelivered, workerInbox, workerThrown>>
  /\ UNCHANGED <<parentVars, routerVars, launchVars, auxVars>>

\* A parent-side manager sends to the subprocess.
ParentSend ==
  \E t \in ManagerTypes :
    /\ ~closed
    /\ wpc # "exited"
    /\ Len(toWorker) + Len(workerInbox) < MaxParentMessages
    /\ toWorker' = Append(toWorker, Message(t))
    /\ UNCHANGED <<wpc, invokeEnd, invokeThrown, caught, listening, toParent,
                   workerSent, workerDelivered, workerInbox, workerThrown>>
    /\ UNCHANGED <<parentVars, routerVars, launchVars, auxVars>>

\* The parent's 'message' handler runs on the next message of the channel.
ParentDeliver ==
  /\ ~closed
  /\ toParent # <<>>
  /\ OnMessage(Head(toParent))
  /\ toParent' = Tail(toParent)
  /\ UNCHANGED <<wpc, invokeEnd, invokeThrown, caught, listening, toWorker,
                 workerSent, workerDelivered, workerInbox, workerThrown>>
  /\ UNCHANGED <<fromParentTypes, fromSubprocessTypes, launchVars, auxVars>>

\* The 'close' event: the worker has ended and its messages were delivered.
SystemClose ==
  /\ ~closed
  /\ wpc = "exited"
  /\ toParent = <<>>
  /\ OnClose
  /\ UNCHANGED <<routerVars, workerVars, launchVars, auxVars>>

NextSystem ==
  \/ InstallListener \/ WorkerSend \/ InvokeReturn \/ InvokeThrow
  \/ RemoveAllListeners \/ SendExit \/ WorkerDeliver \/ WorkerExit
  \/ ParentSend \/ ParentDeliver \/ SystemClose

SpecSystem == InitSystem /\ [][NextSystem]_vars

ExitsSent == SelectSeq(workerSent, LAMBDA m : m.type = "exit")
InvokeThrew == invokeEnd \in {"syncThrow", "asyncReject"}

\* C3: however invokeAsync ends, the bootstrap sends exactly one exit
\* message: one with a populated error when invokeAsync threw, the serialized
\* undefined when it returned.
C3_ExactlyOneExit ==
  wpc \in {"sent", "failed", "exited"} =>
    /\ Len(ExitsSent) = 1
    /\ InvokeThrew => ExitsSent[1].error.type # "Undefined"
    /\ invokeEnd = "return" => ExitsSent[1].error = [type |-> "Undefined"]

\* C6: a throw of invokeAsync reaches the caller of launch as a rejection, an
\* Error with its message and stack, carried by the exit message as a
\* serialized Error; a normal return as a fulfilment.
C6_ThrowSurfacesAsRejection ==
  closed =>
    /\ InvokeThrew => launchState = "rejected"
    /\ (InvokeThrew /\ invokeThrown.kind = "error") =>
         /\ Len(ExitsSent) = 1
         /\ ExitsSent[1].error.type = "Error"
         /\ launchError.kind = "error"
         /\ launchError.message = invokeThrown.message
         /\ launchError.stack = invokeThrown.stack
    /\ invokeEnd = "return" => launchState = "fulfilled"

\* C15: whatever invokeAsync does (returns, throws, rejects, with any
\* value) and however many messages the worker sent meanwhile, the parent
\* has received, by the close event, exactly one exit message, as the last
\* message of the channel, and its handler never throws the duplicate-exit
\* or the message-after-exit error.
C15_OneExitLast ==
  /\ closed =>
       /\ Cardinality(ExitIndices) = 1
       /\ received # <<>>
       /\ Last(received).type = "exit"
       /\ received = workerSent
  /\ thrown # <<DuplicateExitMessage>>
  /\ thrown # <<MessageAfterExit>>

\* The handler invocations the listener makes for the messages it was given.
RECURSIVE ForwardedCalls(_)
ForwardedCalls(inbox) ==
  IF inbox = <<>> THEN <<>>
  ELSE LET rest == ForwardedCalls(SubSeq(inbox, 1, Len(inbox) - 1))
           e == inbox[Len(inbox)]
       IN IF e.listened
            THEN rest \o ReceiveMessageFromParentProcess(e.message).calls
            ELSE rest

\* C16: the listener is installed while invokeAsync runs and is removed
\* from the teardown on, so before the exit message is sent, whether
\* invokeAsync returned or threw; each parent message that arrives while
\* invokeAsync runs is given to the from-parent router, and none that arrives
\* later reaches a manager.
C16_ListenerWindow ==
  /\ wpc = "start" => (~listening /\ invokeEnd = "none")
  /\ wpc = "running" => listening
  /\ wpc \in {"teardown", "sent", "failed", "exited"} => ~listening
  /\ ExitsSent # <<>> => ~listening
  /\ \A i \in 1..Len(workerInbox) :
       workerInbox[i].listened = (workerInbox[i].at = "running")
  /\ workerDelivered = ForwardedCalls(workerInbox)
  /\ \A i \in 1..Len(workerDelivered) : workerDelivered[i].from = "parent"

C16_Witness ==
  /\ InvokeThrew
  /\ Len(workerInbox) = 2
  /\ workerInbox[1].at = "running"
  /\ workerInbox[2].at = "sent"
  /\ Len(workerDelivered) = 1
  /\ workerDelivered[1].message = workerInbox[1].message

----------------------------------------------------------------------------
(* SpecRouter: the two router methods of one parent-side runner, whose     *)
(* managers reach them through sendMessageToSubprocessFn and               *)
(* sendMessageToParentProcessFn (lines 90-91), under every assignment of   *)
(* types to the two managers' predicates.                                  *)

MaxDispatch == 2

RoutableMessages ==
  {Message(t) : t \in MessageTypes} \cup {ExitMessage([type |-> "Undefined"])}

InitRouter ==
  /\ fromParentTypes \in [ManagerNames -> SUBSET ManagerTypes]
  /\ fromSubprocessTypes \in [ManagerNames -> SUBSET ManagerTypes]
  /\ InitParentVars /\ InitRouterVars /\ InitWorkerVars /\ InitLaunchVars /\ InitAuxVars

RouteFromParent ==
  \E message \in RoutableMessages :
    /\ Len(dispatched) < MaxDispatch
    /\ LET r == ReceiveMessageFromParentProcess(message)
       IN /\ delivered' = delivered \o r.calls
          /\ routerThrown' = r.thrown
    /\ dispatched' = Append(dispatched, Routed("parent", message))
    /\ UNCHANGED <<fromParentTypes, fromSubprocessTypes, parentVars, workerVars,
                   launchVars, auxVars>>

RouteFromSubprocess ==
  \E message \in RoutableMessages :
    /\ Len(dispatched) < MaxDispatch
    /\ LET r == ReceiveMessageFromSubprocess(message)
       IN /\ delivered' = delivered \o r.calls
          /\ routerThrown' = r.thrown
    /\ dispatched' = Append(dispatched, Routed("subprocess", message))
    /\ UNCHANGED <<fromParentTypes, fromSubprocessTypes, parentVars, workerVars,
                   launchVars, auxVars>>

NextRouter == RouteFromParent \/ RouteFromSubprocess

SpecRouter == InitRouter /\ [][NextRouter]_vars

\* Whether the i-th registered manager's predicate accepts a routed message.
Claims(i, d) ==
  d.message.type \in (IF d.from = "parent" THEN fromParentTypes
                                           ELSE fromSubprocessTypes)[SubprocessCommunicationManagers[i]]
Claimants(d) == {i \in 1..Len(SubprocessCommunicationManagers) : Claims(i, d)}
Routable == {k \in 1..Len(dispatched) : Claimants(dispatched[k]) # {}}
\* The handler invocations before the first k routed messages are done with.
DeliveredUpTo(k) == Cardinality({j \in Routable : j <= k})

\* C7: a routed message is handed to exactly one manager, the first in
\* registration order whose predicate for the direction accepts it, and to
\* no later one; with disjoint ownership, to the owner and never the other.
C7_FirstMatchWins ==
  /\ Len(delivered) = Cardinality(Routable)
  /\ \A k \in Routable :
       LET d == dispatched[k]
           c == delivered[DeliveredUpTo(k)]
       IN /\ c.message = d.message
          /\ c.from = d.from
          /\ \E i \in Claimants(d) :
               /\ c.manager = SubprocessCommunicationManagers[i]
               /\ \A j \in 1..(i - 1) : ~Claims(j, d)

\* both managers accept the message; the first registered one got it
C7_Witness ==
  /\ Len(dispatched) = 2
  /\ Cardinality(Claimants(dispatched[1])) = 2
  /\ Cardinality(Claimants(dispatched[2])) = 2
  /\ dispatched[1].from # dispatched[2].from
  /\ Len(delivered) = 2
  /\ delivered[2].manager = "terminalProviderManager"

\* C8: routing a message no manager accepts throws the error that names its
\* type and direction and invokes no handler; a routed message either
\* reaches one handler or raises that error.
C8_Unroutable ==
  /\ Len(delivered) = Cardinality(Routable)
  /\ dispatched # <<>> =>
       LET d == Last(dispatched)
       IN IF Claimants(d) = {}
            THEN /\ Len(routerThrown) = 1
                 /\ routerThrown[1].kind = "error"
                 /\ routerThrown[1].message =
                      "Subprocess communication manager. No communication manager can "
                        \o "handle message type \"" \o d.message.type \o "\" from "
                        \o (IF d.from = "parent" THEN "parent process" ELSE "subprocess")
                        \o "."
            ELSE routerThrown = <<>>

C8_Witness ==
  /\ Len(dispatched) = 2
  /\ dispatched[1].from = "subprocess" /\ Claimants(dispatched[1]) = {}
  /\ dispatched[2].from = "parent" /\ Claimants(dispatched[2]) = {}
  /\ dispatched[2].message.type = "typeA"
  /\ delivered = <<>>
  /\ routerThrown # <<>>

----------------------------------------------------------------------------
(* SpecLaunch: successive forks in one parent process, by any of its       *)
(* runners: _processNodeArgsForSubprocess (lines 255-275), called with     *)
(* process.execArgv (line 170).                                            *)
(*                                                                         *)
(* A string is the sequence of its pieces, "=" being a piece of its own:   *)
(* "--inspect-brk=9229" is <<"--inspect", "-brk", "=", "9229">>.           *)

MaxArgs == 2
MaxLaunches == 3

Runners == {"runnerA", "runnerB"}

NodeArgPool ==
  { <<"--inspect">>,
    <<"--inspect", "-brk">>,
    <<"--inspect", "=", "9229">>,
    <<"--inspect", "-brk", "=", "127.0.0.1:9229">>,
    <<"--inspect", "-port", "=", "9229">>,
    <<"--max-old-space-size", "=", "4096">>,
    <<"--title", "=", "--inspect">>,
    <<"--no-warnings">> }

NodeArgLists == UNION {[1..n -> NodeArgPool] : n \in 0..MaxArgs}

\* const [firstNodeArgPart] = nodeArgs[i].split('=') (line 263)
FirstNodeArgPart(nodeArg) ==
  LET eqs == {i \in 1..Len(nodeArg) : nodeArg[i] = "="}
  IN IF eqs = {} THEN nodeArg
     ELSE SubSeq(nodeArg, 1, (CHOOSE i \in eqs : \A j \in eqs : i <= j) - 1)

\* line 264
IsInspectorFlag(part) == part = <<"--inspect">> \/ part = <<"--inspect", "-brk">>

\* `${firstNodeArgPart}=${inspectPort}` (line 265)
WithPort(part, inspectPort) == part \o <<"=", ToString(inspectPort)>>

\* const inspectPort = SubprocessRunnerBase._subprocessInspectorPort++ (line 257)
\* (a read of the counter without the increment)
PostIncrementForgotten(counter) == [value |-> counter, counter |-> counter]
PostIncrement(counter) == [value |-> counter, counter |-> counter + 1]

\* _processNodeArgsForSubprocess: the returned array, the caller's array
\* after the call, and the lines written to the terminal.
\* (the rewriting without the clone of line 256)
ProcessNodeArgsInPlace(nodeArgs, inspectPort) ==
  LET rewritten == [i \in 1..Len(nodeArgs) |->
                      IF IsInspectorFlag(FirstNodeArgPart(nodeArgs[i]))
                        THEN WithPort(FirstNodeArgPart(nodeArgs[i]), inspectPort)
                        ELSE nodeArgs[i]]
      willUseInspector == \E i \in 1..Len(nodeArgs) :
                            IsInspectorFlag(FirstNodeArgPart(nodeArgs[i]))
  IN [result |-> rewritten,
      callerArgs |-> rewritten,
      lines |-> IF willUseInspector
                  THEN <<"Subprocess with inspector bound to port " \o ToString(inspectPort)>>
                  ELSE <<>>]
ProcessNodeArgsForSubprocess(nodeArgs, inspectPort) ==
  LET rewritten == [i \in 1..Len(nodeArgs) |->
                      IF IsInspectorFlag(FirstNodeArgPart(nodeArgs[i]))
                        THEN WithPort(FirstNodeArgPart(nodeArgs[i]), inspectPort)
                        ELSE nodeArgs[i]]
      willUseInspector == \E i \in 1..Len(nodeArgs) :
                            IsInspectorFlag(FirstNodeArgPart(nodeArgs[i]))
  IN [result |-> rewritten,
      callerArgs |-> nodeArgs,
      lines |-> IF willUseInspector
                  THEN <<"Subprocess with inspector bound to port " \o ToString(inspectPort)>>
                  ELSE <<>>]

InitLaunch ==
  /\ subprocessInspectorPort = DefaultInspectorPort + 1
  /\ execArgv \in NodeArgLists
  /\ launches = <<>>
  /\ terminalLog = <<>>
  /\ InitParentVars /\ InitRouterVars /\ InitStandardWiring /\ InitWorkerVars /\ InitAuxVars

\* invokeAsSubprocessAsync up to the fork (lines 166-172), on one runner.
Launch ==
  \E runner \in Runners :
    /\ Len(launches) < MaxLaunches
    /\ LET p == PostIncrement(subprocessInspectorPort)
           r == ProcessNodeArgsForSubprocess(execArgv, p.value)
       IN /\ subprocessInspectorPort' = p.counter
          /\ execArgv' = r.callerArgs
          /\ terminalLog' = terminalLog \o r.lines
          /\ launches' = Append(launches, [runner |-> runner,
                                            port |-> p.value,
                                            parentArgs |-> execArgv,
                                            execArgv |-> r.result,
                                            logged |-> r.lines])
    /\ UNCHANGED <<parentVars, routerVars, workerVars, auxVars>>

NextLaunch == Launch

SpecLaunch == InitLaunch /\ [][NextLaunch]_vars

\* C9: the ports given to the workers are pairwise distinct, strictly
\* increasing in launch order and above 9229, the first being 9230, whatever
\* the runner and whether or not an inspector flag is present; the counter
\* is always past every port handed out.
C9_PortsDistinctIncreasing ==
  /\ \A i, j \in 1..Len(launches) : i < j => launches[i].port < launches[j].port
  /\ \A i, j \in 1..Len(launches) : i # j => launches[i].port # launches[j].port
  /\ \A i \in 1..Len(launches) : launches[i].port > DefaultInspectorPort
  /\ launches # <<>> => launches[1].port = 9230
  /\ \A i \in 1..Len(launches) : launches[i].port < subprocessInspectorPort

C9_Witness ==
  /\ Len(launches) = 3
  /\ launches[1].runner = "runnerA"
  /\ launches[2].runner = "runnerB"
  /\ launches[3].runner = "runnerA"
  /\ launches[3].port = 9232
  /\ terminalLog = <<>>

\* An argument whose text before the first "=" is --inspect or --inspect-brk.
HasInspectorFlag(nodeArg) ==
  \/ nodeArg \in {<<"--inspect">>, <<"--inspect", "-brk">>}
  \/ Len(nodeArg) >= 2 /\ nodeArg[1] = "--inspect" /\ nodeArg[2] = "="
  \/ Len(nodeArg) >= 3 /\ nodeArg[1] = "--inspect" /\ nodeArg[2] = "-brk" /\ nodeArg[3] = "="
FlagOf(nodeArg) ==
  IF Len(nodeArg) >= 2 /\ nodeArg[2] = "-brk" THEN <<"--inspect", "-brk">> ELSE <<"--inspect">>

\* C10: the worker's runtime arguments have the length and order of the
\* parent's; an --inspect or --inspect-brk argument, with or without a port,
\* becomes that flag with the launch's port, every other argument is passed
\* unchanged; the parent's list is not changed; the bound-port line is
\* written exactly when an inspector flag was rewritten.
C10_ArgsRewritten ==
  /\ \A k \in 1..Len(launches) :
       LET l == launches[k]
       IN /\ Len(l.execArgv) = Len(l.parentArgs)
          /\ \A i \in 1..Len(l.parentArgs) :
               l.execArgv[i] = IF HasInspectorFlag(l.parentArgs[i])
                                 THEN FlagOf(l.parentArgs[i]) \o <<"=", ToString(l.port)>>
                                 ELSE l.parentArgs[i]
          /\ l.parentArgs = execArgv
          /\ (l.logged # <<>>) <=> (\E i \in 1..Len(l.parentArgs) : HasInspectorFlag(l.parentArgs[i]))
          /\ l.logged \in {<<>>, <<"Subprocess with inspector bound to port " \o ToString(l.port)>>}
  /\ Len(terminalLog) = Cardinality({k \in 1..Len(launches) : launches[k].logged # <<>>})

C10_Witness ==
  /\ Len(launches) = 2
  /\ execArgv = << <<"--inspect", "-brk", "=", "127.0.0.1:9229">>, <<"--inspect", "-port", "=", "9229">> >>
  /\ launches[2].execArgv = << <<"--inspect", "-brk", "=", "9231">>, <<"--inspect", "-port", "=", "9229">> >>
  /\ Len(terminalLog) = 2

\* C18: a runner has at most one worker process: whatever the sequence of
\* invokeAsSubprocessAsync calls, no two forks are made for the same runner.
C18_OneWorkerPerRunner ==
  \A i, j \in 1..Len(launches) :
    launches[i].runner = launches[j].runner => i = j

----------------------------------------------------------------------------
(* SpecCodec: serializeArg and deserializeArg called on their own: one     *)
(* value is serialized and the Argument obtained is deserialized; one      *)
(* Argument is deserialized as it stands.                                  *)

MaxNumber == 2

CodecStrings == {"", "boom", "undefined", "null", "false", "0"}
CodecStacks == {<<>>, <<"">>, <<"at worker">>}

\* The values of every shape typeof and instanceof tell apart.
CodecValues ==
  {Undefined, Null, PlainObject, ArrayValue, FunctionValue, SymbolValue}
    \cup {Bool(b) : b \in BOOLEAN}
    \cup {Num(n) : n \in (0 - MaxNumber)..MaxNumber}
    \cup {Str(t) : t \in CodecStrings}
    \cup {ErrorObj(m, st) : m \in {"", "boom"}, st \in CodecStacks}

\* Arguments of the four tags, and of tags that are none of them.
CodecRawArguments ==
  { [type |-> "Undefined"],
    [type |-> "Null"],
    [type |-> "Primitive", value |-> Str("")],
    [type |-> "Error", value |-> [errorMessage |-> "boom", errorStack |-> <<>>]],
    [type |-> "Bogus"],
    [type |-> "undefined"],
    [type |-> ""],
    [type |-> "Object", value |-> Str("boom")] }

InitCodec ==
  /\ codecArg \in CodecValues
  /\ codecRaw \in CodecRawArguments
  /\ serialized = <<>>
  /\ deserialized = <<>>
  /\ rawDeserialized = <<>>
  /\ InitParentVars /\ InitRouterVars /\ InitStandardWiring
  /\ InitWorkerVars /\ InitLaunchVars /\ InitSetupVars

CallSerializeArg ==
  /\ serialized = <<>>
  /\ serialized' = <<SerializeArg(codecArg)>>
  /\ UNCHANGED <<codecArg, codecRaw, deserialized, rawDeserialized>>
  /\ UNCHANGED <<parentVars, routerVars, workerVars, launchVars, setupVars>>

CallDeserializeArg ==
  /\ serialized # <<>>
  /\ serialized[1].ok
  /\ deserialized = <<>>
  /\ deserialized' = <<DeserializeArg(serialized[1].value)>>
  /\ UNCHANGED <<codecArg, codecRaw, serialized, rawDeserialized>>
  /\ UNCHANGED <<parentVars, routerVars, workerVars, launchVars, setupVars>>

CallDeserializeArgRaw ==
  /\ rawDeserialized = <<>>
  /\ rawDeserialized' = <<DeserializeArg(codecRaw)>>
  /\ UNCHANGED <<codecArg, codecRaw, serialized, deserialized>>
  /\ UNCHANGED <<parentVars, routerVars, workerVars, launchVars, setupVars>>

NextCodec == CallSerializeArg \/ CallDeserializeArg \/ CallDeserializeArgRaw

SpecCodec == InitCodec /\ [][NextCodec]_vars

\* undefined, null, a string, a number, a boolean or an Error
Supported(v) == v.kind \in {"undefined", "null", "string", "number", "boolean", "error"}

\* C11: deserializeArg(serializeArg(v)) is v for undefined, null and every
\* string, number and boolean, and for an Error an Error of the same message
\* and the same stack, present or not.
C11_RoundTrip ==
  Supported(codecArg) =>
    /\ serialized # <<>> => serialized[1].ok
    /\ deserialized # <<>> =>
         /\ deserialized[1].ok
         /\ deserialized[1].value.kind = codecArg.kind
         /\ IF codecArg.kind = "error"
              THEN /\ deserialized[1].value.message = codecArg.message
                   /\ deserialized[1].value.stack = codecArg.stack
              ELSE deserialized[1].value = codecArg

C11_Witness ==
  /\ codecArg = ErrorObj("boom", <<>>)
  /\ deserialized # <<>>
  /\ deserialized[1].value.stack = <<>>

\* String(v) of a value serializeArg has no case for
StringOf(v) == IF v.kind = "symbol" THEN "Symbol()" ELSE TemplateString(v)

\* C12: serializeArg throws the unsupported-argument error, which names the
\* value, for every value that is not undefined, null, a string, a number, a
\* boolean or an Error, and returns a tagged Argument for every value that
\* is.
C12_SerializeRejectsUnsupported ==
  serialized # <<>> =>
    IF Supported(codecArg)
      THEN serialized[1].ok /\ serialized[1].value.type \in KnownTags
      ELSE /\ ~serialized[1].ok
           /\ serialized[1].error.message =
                "Argument (" \o StringOf(codecArg)
                  \o ") is not supported in subprocess communication."

\* C13: deserializeArg throws the unknown-tag error for every Argument
\* whose tag is none of Undefined, Null, Primitive and Error, and throws
\* nothing for an Argument serializeArg returned.
C13_UnknownTag ==
  /\ rawDeserialized # <<>> =>
       IF codecRaw.type \in KnownTags
         THEN rawDeserialized[1].ok
         ELSE /\ ~rawDeserialized[1].ok
              /\ rawDeserialized[1].error.kind = "error"
              /\ rawDeserialized[1].error.message =
                   "Unexpected arg type \"" \o codecRaw.type \o "\"."
  /\ deserialized # <<>> => deserialized[1].ok

C13_Witness ==
  /\ codecRaw.type = "Bogus"
  /\ rawDeserialized # <<>>
  /\ codecArg = Str("boom")
  /\ deserialized # <<>>

----------------------------------------------------------------------------
(* SpecWiring: the construction of one runner, in the parent process by    *)
(* the constructor and in the worker process by initializeSubprocess, and  *)
(* the sends of its communication managers once they are registered.       *)

MaxSends == 2

\* The statements of the constructor, in order (lines 79-114).
\* (a constructor that calls initialize() outside the branch)
ConstructorStepsAlwaysInitializing(isParent) ==
  IF isParent
    THEN <<"configuration", "parentOptions", "terminalProviderManager",
           "scopedLoggerManager", "globalTerminal", "push", "initialize">>
    ELSE <<"configuration", "initialize">>
ConstructorSteps(isParent) ==
  IF isParent
    THEN <<"configuration", "parentOptions", "terminalProviderManager",
           "scopedLoggerManager", "globalTerminal", "push", "initialize">>
    ELSE <<"configuration">>

\* The statements of initializeSubprocess after new thisType(undefined, ...)
\* (lines 131-159).
InitializeSubprocessSteps ==
  <<"runningAsSubprocess", "subprocessOptions", "terminalProviderManager",
    "scopedLoggerManager", "globalTerminal", "push", "initialize">>

Program(side) ==
  IF side = "parent"
    THEN ConstructorSteps(TRUE)
    ELSE ConstructorSteps(FALSE) \o InitializeSubprocessSteps

CurrentStep ==
  IF setupPc <= Len(Program(runnerSide)) THEN Program(runnerSide)[setupPc] ELSE "returned"

\* The constructor is still running.
InConstructor == setupPc <= Len(ConstructorSteps(runnerSide = "parent"))

\* communicationManagerBaseOptions of the constructor (lines 89-92)
ParentOptions ==
  [sendMessageToParentProcessFn |-> "_receiveMessageFromSubprocess",
   sendMessageToSubprocessFn |-> "_receiveMessageFromParentProcess"]
\* communicationManagerBaseOptions of initializeSubprocess (lines 134-139)
\* (options that loop back as the constructor's do)
SubprocessOptionsLoopingBack ==
  [sendMessageToParentProcessFn |-> "_receiveMessageFromSubprocess",
   sendMessageToSubprocessFn |-> "_receiveMessageFromParentProcess"]
SubprocessOptions ==
  [sendMessageToParentProcessFn |-> "process.send",
   sendMessageToSubprocessFn |-> "throw"]

CannotSendToItself == ErrorObj("A subprocess cannot send a message to itself.", LocalStack)

\* A call of one of the wired functions: the handler invocations it makes,
\* what it throws, what it gives to process.send and to the router.
CallSendFn(fn, message) ==
  CASE fn = "_receiveMessageFromSubprocess" ->
         LET r == ReceiveMessageFromSubprocess(message)
         IN [calls |-> r.calls, thrown |-> r.thrown, sent |-> <<>>,
             routed |-> <<Routed("subprocess", message)>>]
    [] fn = "_receiveMessageFromParentProcess" ->
         LET r == ReceiveMessageFromParentProcess(message)
         IN [calls |-> r.calls, thrown |-> r.thrown, sent |-> <<>>,
             routed |-> <<Routed("parent", message)>>]
    [] fn = "process.send" ->
         [calls |-> <<>>, thrown |-> <<>>, sent |-> <<message>>, routed |-> <<>>]
    [] fn = "throw" ->
         [calls |-> <<>>, thrown |-> <<CannotSendToItself>>, sent |-> <<>>,
          routed |-> <<>>]

InitWiring ==
  /\ runnerSide \in {"parent", "worker"}
  /\ setupPc = 1
  /\ options = <<>>
  /\ wired = [m \in ManagerNames |-> <<>>]
  /\ registry = <<>>
  /\ globalTerminal = FALSE
  /\ runningAsSubprocess = FALSE
  /\ initializeCalls = <<>>
  /\ invokeStarted = FALSE
  /\ sendLog = <<>>
  /\ processSent = <<>>
  /\ InitParentVars /\ InitRouterVars /\ InitStandardWiring
  /\ InitWorkerVars /\ InitLaunchVars /\ InitCodecVars

UnchangedOutsideSetup ==
  UNCHANGED <<parentVars, routerVars, workerVars, launchVars, codecVars>>

\* this._configuration = configuration
SetConfiguration ==
  /\ CurrentStep = "configuration"
  /\ setupPc' = setupPc + 1
  /\ UNCHANGED <<runnerSide, options, wired, registry, globalTerminal,
                 runningAsSubprocess, initializeCalls, invokeStarted, sendLog,
                 processSent>>
  /\ UnchangedOutsideSetup

\* subprocessRunner._runningAsSubprocess = true
SetRunningAsSubprocess ==
  /\ CurrentStep = "runningAsSubprocess"
  /\ setupPc' = setupPc + 1
  /\ runningAsSubprocess' = TRUE
  /\ UNCHANGED <<runnerSide, options, wired, registry, globalTerminal,
                 initializeCalls, invokeStarted, sendLog, processSent>>
  /\ UnchangedOutsideSetup

BuildOptions ==
  /\ CurrentStep \in {"parentOptions", "subprocessOptions"}
  /\ setupPc' = setupPc + 1
  /\ options' = IF CurrentStep = "parentOptions"
                  THEN <<ParentOptions>> ELSE <<SubprocessOptions>>
  /\ UNCHANGED <<runnerSide, wired, registry, globalTerminal, runningAsSubprocess,
                 initializeCalls, invokeStarted, sendLog, processSent>>
  /\ UnchangedOutsideSetup

\* new TerminalProviderManager({...communicationManagerBaseOptions, ...}) and
\* new ScopedLoggerManager({...communicationManagerBaseOptions, ...})
ConstructManager ==
  /\ CurrentStep \in ManagerNames
  /\ setupPc' = setupPc + 1
  /\ wired' = [wired EXCEPT ![CurrentStep] = options]
  /\ UNCHANGED <<runnerSide, options, registry, globalTerminal, runningAsSubprocess,
                 initializeCalls, invokeStarted, sendLog, processSent>>
  /\ UnchangedOutsideSetup

\* this._globalTerminal = new Terminal(...)
CreateGlobalTerminal ==
  /\ CurrentStep = "globalTerminal"
  /\ setupPc' = setupPc + 1
  /\ globalTerminal' = TRUE
  /\ UNCHANGED <<runnerSide, options, wired, registry, runningAsSubprocess,
                 initializeCalls, invokeStarted, sendLog, processSent>>
  /\ UnchangedOutsideSetup

\* this._subprocessCommunicationManagers.push(terminalProviderManager,
\* scopedLoggerManager): the managers as they are at this point
PushManagers ==
  /\ CurrentStep = "push"
  /\ setupPc' = setupPc + 1
  /\ registry' = registry \o SubprocessCommunicationManagers
  /\ UNCHANGED <<runnerSide, options, wired, globalTerminal, runningAsSubprocess,
                 initializeCalls, invokeStarted, sendLog, processSent>>
  /\ UnchangedOutsideSetup

\* this.initialize(): the record is what the hook finds.
CallInitialize ==
  /\ CurrentStep = "initialize"
  /\ setupPc' = setupPc + 1
  /\ initializeCalls' =
       Append(initializeCalls,
              [inConstructor |-> InConstructor,
               constructed |-> {m \in ManagerNames : wired[m] # <<>>},
               registry |-> registry,
               globalTerminal |-> globalTerminal,
               invokeStarted |-> invokeStarted])
  /\ UNCHANGED <<runnerSide, options, wired, registry, globalTerminal,
                 runningAsSubprocess, invokeStarted, sendLog, processSent>>
  /\ UnchangedOutsideSetup

\* The runner has been returned to its caller, which starts the work:
\* invokeAsSubprocessAsync in the parent, [SUBPROCESS_RUNNER_INNER_INVOKE]
\* and with it invokeAsync in the worker.
StartInvoke ==
  /\ CurrentStep = "returned"
  /\ ~invokeStarted
  /\ invokeStarted' = TRUE
  /\ UNCHANGED <<runnerSide, setupPc, options, wired, registry, globalTerminal,
                 runningAsSubprocess, initializeCalls, sendLog, processSent>>
  /\ UnchangedOutsideSetup

\* A registered manager calls one of the two functions it was constructed
\* with.
ManagerSend(direction) ==
  \E manager \in ManagerNames, t \in MessageTypes :
    /\ Len(sendLog) < MaxSends
    /\ registry # <<>>
    /\ wired[manager] # <<>>
    /\ LET message == Message(t)
           fn == IF direction = "parent"
                   THEN wired[manager][1].sendMessageToParentProcessFn
                   ELSE wired[manager][1].sendMessageToSubprocessFn
           r == CallSendFn(fn, message)
       IN /\ delivered' = delivered \o r.calls
          /\ dispatched' = dispatched \o r.routed
          /\ routerThrown' = r.thrown
          /\ processSent' = processSent \o r.sent
          /\ sendLog' = Append(sendLog, [manager |-> manager, direction |-> direction,
                                         message |-> message, thrown |-> r.thrown])
    /\ UNCHANGED <<runnerSide, setupPc, options, wired, registry, globalTerminal,
                   runningAsSubprocess, initializeCalls, invokeStarted>>
    /\ UNCHANGED <<fromParentTypes, fromSubprocessTypes, parentVars, workerVars,
                   launchVars, codecVars>>

ManagerSendToParent == ManagerSend("parent")
ManagerSendToSubprocess == ManagerSend("subprocess")

NextWiring ==
  \/ SetConfiguration
  \/ SetRunningAsSubprocess
  \/ BuildOptions
  \/ ConstructManager
  \/ CreateGlobalTerminal
  \/ PushManagers
  \/ CallInitialize
  \/ StartInvoke
  \/ ManagerSendToParent
  \/ ManagerSendToSubprocess

SpecWiring == InitWiring /\ [][NextWiring]_vars

\* The messages of the sends in one direction, in order.
RECURSIVE SentIn(_, _)
SentIn(direction, log) ==
  IF log = <<>> THEN <<>>
  ELSE LET rest == SentIn(direction, SubSeq(log, 1, Len(log) - 1))
           e == log[Len(log)]
       IN IF e.direction = direction THEN Append(rest, e.message) ELSE rest

\* C14: in a runner made by initializeSubprocess each manager's send to
\* the subprocess throws "A subprocess cannot send a message to itself.",
\* whatever the message, and reaches no handler and no router; each manager's
\* send to the parent is process.send, which is given exactly the messages
\* sent to the parent, in order.
C14_NoNestedSubprocess ==
  runnerSide = "worker" =>
    /\ \A m \in ManagerNames :
         wired[m] # <<>> =>
           /\ wired[m][1].sendMessageToParentProcessFn = "process.send"
           /\ wired[m][1].sendMessageToSubprocessFn = "throw"
    /\ \A i \in 1..Len(sendLog) :
         IF sendLog[i].direction = "subprocess"
           THEN sendLog[i].thrown = <<CannotSendToItself>>
           ELSE sendLog[i].thrown = <<>>
    /\ delivered = <<>>
    /\ dispatched = <<>>
    /\ processSent = SentIn("parent", sendLog)

C14_Witness ==
  /\ runnerSide = "worker"
  /\ Len(sendLog) = 2
  /\ sendLog[1].direction = "subprocess"
  /\ sendLog[1].message.type \in ManagerTypes
  /\ sendLog[2].direction = "parent"
  /\ processSent = <<sendLog[2].message>>

\* C19: initialize() is called at most once for a runner and exactly once
\* by the time the runner is returned; the call finds both managers
\* constructed and in the registry and the global terminal created, and
\* invokeAsync not started; invokeAsync starts only after the call; in the
\* worker the call is made by initializeSubprocess after the constructor has
\* returned, in the parent by the constructor.
C19_InitializeOnce ==
  /\ Len(initializeCalls) <= 1
  /\ CurrentStep = "returned" => Len(initializeCalls) = 1
  /\ invokeStarted => Len(initializeCalls) = 1
  /\ \A i \in 1..Len(initializeCalls) :
       /\ initializeCalls[i].constructed = ManagerNames
       /\ initializeCalls[i].registry = SubprocessCommunicationManagers
       /\ initializeCalls[i].globalTerminal
       /\ ~initializeCalls[i].invokeStarted
       /\ initializeCalls[i].inConstructor = (runnerSide = "parent")
  /\ (runnerSide = "worker" /\ InConstructor) => initializeCalls = <<>>

C19_Witness ==
  /\ runnerSide = "worker"
  /\ runningAsSubprocess
  /\ invokeStarted
  /\ Len(initializeCalls) = 1

====
